---- MODULE Spec2Model ----
(***************************************************************************)
(* Model of mixxxdb: the Model engine (db.py, models.py), the BaseSchema   *)
(* engine (schemas.py) and the maintenance operations (mixxxdb.py).        *)
(*                                                                         *)
(* Every Python / SQLite scalar is modelled as a string: integers are      *)
(* digit strings, booleans are "True"/"False", and Python None / SQL NULL  *)
(* is the value None below.  The columns modelled are the ones the code of *)
(* the operations reads or writes by name (id, the foreign keys, the path  *)
(* columns) plus one nullable integer and one nullable boolean column.     *)
(***************************************************************************)
EXTENDS Integers, Sequences, FiniteSets, TLC

VARIABLES store, fs, objs, id_field, res, mv, scan

vars == <<store, fs, objs, id_field, res, mv, scan>>

----------------------------------------------------------------------------
(* Bounds *)

MaxLoc == 2
MaxTrack == 2
MaxObjs == 2
MaxMut == 1
MaxSrc == 2

----------------------------------------------------------------------------
(* Values *)

None == "None"

IdStr == <<"1", "2", "3", "4", "5">>

IntVals == {"0", "1", "2", "3", "4", "5", "10"}

BoolVals == {"True", "False"}

LocIds == {IdStr[i] : i \in 1..MaxLoc}

TrackIds == {IdStr[i] : i \in 1..MaxTrack}

Ord(id) == IF \E i \in 1..Len(IdStr) : IdStr[i] = id
           THEN CHOOSE i \in 1..Len(IdStr) : IdStr[i] = id
           ELSE 0

Range(s) == {s[i] : i \in 1..Len(s)}

----------------------------------------------------------------------------
(* Paths: os.path / pathlib on a finite universe.  Each entry is           *)
(* <<directory, name, path>>.  "/l" is a symbolic link to "/m".            *)

PathTab ==
  { <<"/m", "a.mp3", "/m/a.mp3">>, <<"/m", "b.mp3", "/m/b.mp3">>,
    <<"/m", "c.txt", "/m/c.txt">>, <<"/m", "d'n.mp3", "/m/d'n.mp3">>,
    <<"/n", "a.mp3", "/n/a.mp3">>, <<"/n", "b.mp3", "/n/b.mp3">>,
    <<"/n", "c.txt", "/n/c.txt">>, <<"/n", "d'n.mp3", "/n/d'n.mp3">>,
    <<"/l", "a.mp3", "/l/a.mp3">>, <<"/l", "b.mp3", "/l/b.mp3">>,
    <<"/l", "c.txt", "/l/c.txt">>, <<"/l", "d'n.mp3", "/l/d'n.mp3">>,
    <<"/gone", "a.mp3", "/gone/a.mp3">> }

Paths == {t[3] : t \in PathTab}

LocPaths == <<"/m/a.mp3", "/m/b.mp3", "/n/a.mp3", "/n/b.mp3", "/m/c.txt">>

dirname(p) == (CHOOSE t \in PathTab : t[3] = p)[1]

basename(p) == (CHOOSE t \in PathTab : t[3] = p)[2]

joinpath(d, n) == (CHOOSE t \in PathTab : t[1] = d /\ t[2] = n)[3]

(* the directories that exist, the root included; "/gone" does not *)
RealDirs == {"/", "/m", "/n"}

(* the directory a directory name leads to, through the symbolic link *)
realdir(d) == IF d = "/l" THEN "/m" ELSE d

(* Path.resolve() *)
resolve(p) == joinpath(realdir(dirname(p)), basename(p))

(* mimetypes.guess_type(path)[0] starts with "audio/" *)
IsAudio(p) == basename(p) \in {"a.mp3", "b.mp3", "d'n.mp3"}

----------------------------------------------------------------------------
(* The catalog: one set of rows per table. *)

Tables == {"track_locations", "library", "cues", "PlaylistTracks",
           "crate_tracks", "track_analysis"}

LocRow(i) ==
  [id |-> IdStr[i], location |-> LocPaths[i],
   directory |-> dirname(LocPaths[i]), filename |-> basename(LocPaths[i]),
   filesize |-> IF i = 1 THEN "10" ELSE None,
   fs_deleted |-> IF i = 1 THEN "0" ELSE None]

DepChoices == {"none", "all"}

Catalog(libmap, dep) ==
  [track_locations |-> {LocRow(i) : i \in 1..MaxLoc},
   library |-> {[id |-> t, location |-> libmap[t]] :
                   t \in {u \in TrackIds : libmap[u] # "absent"}},
   cues |-> IF dep = "all"
            THEN {[id |-> "1", track_id |-> "1"]} ELSE {},
   PlaylistTracks |-> IF dep = "all"
                      THEN {[id |-> "1", track_id |-> "1"]} ELSE {},
   crate_tracks |-> IF dep = "all"
                    THEN {[crate_id |-> "1", track_id |-> "1"]} ELSE {},
   track_analysis |-> IF dep = "all"
                      THEN {[id |-> "1", track_id |-> "1"]} ELSE {}]

(* the first k tracks exist and are at location 1 *)
LibMap(k) == [t \in TrackIds |-> IF Ord(t) <= k THEN "1" ELSE "absent"]

Catalogs == {Catalog(LibMap(k), dep) : k \in 0..MaxTrack, dep \in DepChoices}

----------------------------------------------------------------------------
(* db.py: column descriptors *)

Field_isinstance(kind, v) ==
  CASE kind \in {"Integer", "ForeignKey"} -> v \in IntVals \cup BoolVals
    [] kind = "Boolean" -> v \in BoolVals
    [] kind \in {"Char", "Text"} -> v \notin IntVals \cup BoolVals \cup {None}
    [] OTHER -> FALSE

(* the check with "and" for "or": raises only for a wrong, non-nullable value *)
Field_check_and(kind, nullable, v) ==
  Field_isinstance(kind, v) \/ v = None \/ nullable

Field_check(kind, nullable, v) ==
  Field_isinstance(kind, v) \/ (v = None /\ nullable)

Field_to_python(kind, v) ==
  IF kind = "Boolean"
  THEN (IF v \in {None, "0", "False", ""} THEN "False" ELSE "True")
  ELSE v

Field_to_db(kind, v) ==
  CASE v = None -> "NULL"
    [] kind = "Boolean" -> IF v \in {None, "0", "False", ""} THEN "0" ELSE "1"
    [] OTHER -> v

(* get_equals_expr as a row predicate: col IS NULL, or col = literal *)
Field_equals(kind, v, stored) ==
  IF v = None THEN stored = None ELSE stored = Field_to_db(kind, v)

----------------------------------------------------------------------------
(* models.py: the declared schemas *)

ModelClasses == {"TrackLocation", "Track", "TrackAnalysis", "Cue",
                 "CrateTrack", "PlaylistTrack"}

NoIdColumn == "<unset>"

F(name, kind, nullable) == [name |-> name, kind |-> kind, nullable |-> nullable]

base_fields(cls) ==
  CASE cls = "TrackLocation" ->
         <<F("id", "Integer", FALSE), F("location", "Char", TRUE),
           F("directory", "Char", TRUE), F("filename", "Char", TRUE),
           F("filesize", "Integer", TRUE), F("fs_deleted", "Boolean", TRUE)>>
    [] cls = "Track" ->
         <<F("id", "Integer", FALSE), F("location", "ForeignKey", TRUE)>>
    [] cls = "TrackAnalysis" ->
         <<F("id", "Integer", FALSE), F("track_id", "ForeignKey", FALSE)>>
    [] cls = "Cue" ->
         <<F("id", "Integer", FALSE), F("track_id", "ForeignKey", FALSE)>>
    [] cls = "CrateTrack" ->
         <<F("crate_id", "Integer", FALSE), F("track_id", "ForeignKey", FALSE)>>
    [] cls = "PlaylistTrack" ->
         <<F("id", "Integer", FALSE), F("track_id", "ForeignKey", TRUE)>>

Meta_table(cls) ==
  CASE cls = "TrackLocation" -> "track_locations"
    [] cls = "Track" -> "library"
    [] cls = "TrackAnalysis" -> "track_analysis"
    [] cls = "Cue" -> "cues"
    [] cls = "CrateTrack" -> "crate_tracks"
    [] cls = "PlaylistTrack" -> "PlaylistTracks"

Meta_id_column(cls) == IF cls = "CrateTrack" THEN NoIdColumn ELSE "id"

field_names(cls) == {base_fields(cls)[i].name : i \in 1..Len(base_fields(cls))}

FieldTab ==
  [cls \in ModelClasses |->
     [name \in field_names(cls) |->
        base_fields(cls)[CHOOSE i \in 1..Len(base_fields(cls)) :
                           base_fields(cls)[i].name = name]]]

FieldOf(cls, name) == FieldTab[cls][name]

----------------------------------------------------------------------------
(* db.py: connections and statements.                                      *)
(* An operation runs on a context c: the committed database c.db, the      *)
(* per-class _meta.id_field reference c.idf, the live row instances        *)
(* c.objs, the exception raised so far c.err, the write statements that    *)
(* ran c.sql and the value returned c.out.                                 *)

NoErr == "none"

Ok(c) == c.err = NoErr

Raise(c, e) == [c EXCEPT !.err = e]

Bind(c, Op(_)) == IF Ok(c) THEN Op(c) ELSE c

(* a connection that commits when it is closed *)
db_connection_commit(committed, pending) == pending

(* db_connection: connect, yield, close.  sqlite3 opens a transaction      *)
(* before a DELETE or UPDATE; nothing calls commit(), and close() discards *)
(* the open transaction, so the committed database is what remains.        *)
db_connection(committed, pending) == committed

DeleteRows(db, table, col, lits) ==
  [db EXCEPT ![table] = {r \in @ : r[col] \notin lits}]

Execute(c, stmt, pending) ==
  [c EXCEPT !.db = db_connection(c.db, pending), !.sql = Append(@, stmt)]

RowKey(r) == IF "id" \in DOMAIN r THEN Ord(r["id"]) ELSE 0

RECURSIVE SortRows(_)
SortRows(S) ==
  IF S = {} THEN <<>>
  ELSE LET m == CHOOSE r \in S : \A q \in S : RowKey(r) <= RowKey(q)
       IN  <<m>> \o SortRows(S \ {m})

(* A literal the statement text embeds with str(): an integer is itself,   *)
(* anything else (None, a word) names a column that does not exist.        *)
IsIntLiteral(v) == v \in IntVals

----------------------------------------------------------------------------
(* db.py: Model *)

TemplateRef == [live |-> FALSE, ix |-> 0, v |-> None]

ValueRef(v) == [live |-> FALSE, ix |-> 0, v |-> v]

LiveRef(i) == [live |-> TRUE, ix |-> i, v |-> None]

(* Model.__init__: every field copied from the template, then set from     *)
(* kwargs through to_python, or to None                                    *)
Model_fields(cls, kwargs) ==
  [n \in field_names(cls) |->
     IF n \in DOMAIN kwargs
     THEN Field_to_python(FieldOf(cls, n).kind, kwargs[n])
     ELSE None]

Instance(cls, kwargs, src) ==
  LET f == Model_fields(cls, kwargs)
  IN  [cls |-> cls, f |-> f, orig |-> f, src |-> src]

(* Model.get_id: the value of _meta.id_field, which __init__ rebinds to    *)
(* the id field of the instance constructed last                           *)
Model_get_id(c, cls) ==
  LET r == c.idf[cls]
  IN  IF r.live THEN c.objs[r.ix].f["id"] ELSE r.v

(* Model.list; conds is a sequence of <<column, value sequence>>           *)
Model_list(c, cls, conds) ==
  LET used == {i \in 1..Len(conds) : conds[i][1] \in field_names(cls)}
      rows == {r \in c.db[Meta_table(cls)] :
                 \A i \in used :
                   \E j \in 1..Len(conds[i][2]) :
                     Field_equals(FieldOf(cls, conds[i][1]).kind,
                                  conds[i][2][j], r[conds[i][1]])}
      lst == SortRows(rows)
  IN  IF \E i \in used : conds[i][2] = <<>>
      THEN Raise(c, "OperationalError")
      ELSE IF rows = {} THEN [c EXCEPT !.out = <<>>]
      ELSE IF Meta_id_column(cls) = NoIdColumn THEN Raise(c, "AttributeError")
      ELSE [c EXCEPT
              !.out = [i \in 1..Len(lst) |-> Instance(cls, lst[i], "fetched")],
              !.idf[cls] = ValueRef(lst[Len(lst)]["id"])]

(* Model.get(id) *)
Model_get(c, cls, id) ==
  IF Meta_id_column(cls) = NoIdColumn THEN Raise(c, "AttributeError")
  ELSE LET rows == {r \in c.db[Meta_table(cls)] :
                      Field_equals(FieldOf(cls, "id").kind, id, r["id"])}
       IN  IF rows = {} THEN Raise(c, "NotFound")
           ELSE [c EXCEPT !.out = <<Instance(cls, SortRows(rows)[1], "fetched")>>,
                          !.idf[cls] = ValueRef(SortRows(rows)[1]["id"])]

(* Model.bulk_delete: one DELETE ... WHERE id IN [get_id of each object] *)
Model_bulk_delete(c, cls, args) ==
  IF Meta_id_column(cls) = NoIdColumn THEN Raise(c, "AttributeError")
  ELSE LET lits == [i \in 1..Len(args) |-> Model_get_id(c, args[i].cls)]
       IN  IF \E i \in 1..Len(lits) : ~IsIntLiteral(lits[i])
           THEN Raise(c, "OperationalError")
           ELSE Execute(c, [verb |-> "DELETE", table |-> Meta_table(cls),
                            col |-> "id", vals |-> Range(lits)],
                        DeleteRows(c.db, Meta_table(cls), "id", Range(lits)))

(* Model.delete() *)
Model_delete(c, obj) ==
  IF Model_get_id(c, obj.cls) = None THEN Raise(c, "Precondition")
  ELSE IF obj.f["id"] # None /\ ~IsIntLiteral(obj.f["id"])
  THEN Raise(c, "OperationalError")
  ELSE Execute(c, [verb |-> "DELETE", table |-> Meta_table(obj.cls),
                   col |-> "id", vals |-> {obj.f["id"]}],
               DeleteRows(c.db, Meta_table(obj.cls), "id", {obj.f["id"]}))

(* Model._check() *)
Model_check(obj) ==
  \A n \in field_names(obj.cls) :
    Field_check(FieldOf(obj.cls, n).kind, FieldOf(obj.cls, n).nullable, obj.f[n])

(* Model.update(): the statement text has UpdatePlaceholders conversions   *)
(* and is given UpdateArguments values                                     *)
UpdatePlaceholders == 3

UpdateArguments == 4

Model_update(c, obj) ==
  IF Model_get_id(c, obj.cls) = None THEN Raise(c, "Precondition")
  ELSE IF ~Model_check(obj) THEN Raise(c, "Validation")
  ELSE IF UpdatePlaceholders # UpdateArguments THEN Raise(c, "TypeError")
  ELSE IF \E n \in field_names(obj.cls) \ {"id"} : obj.f[n] = None
  THEN Raise(c, "OperationalError")
  ELSE Execute(c, [verb |-> "UPDATE", table |-> Meta_table(obj.cls),
                   col |-> "id", vals |-> {obj.f["id"]}],
               [c.db EXCEPT ![Meta_table(obj.cls)] =
                  {IF r["id"] = obj.f["id"]
                   THEN [n \in DOMAIN r |->
                           IF n = "id" THEN r[n]
                           ELSE Field_to_db(FieldOf(obj.cls, n).kind, obj.f[n])]
                   ELSE r : r \in @}])

----------------------------------------------------------------------------
(* models.py: the cascades *)

OwnIds(args) == [i \in 1..Len(args) |-> args[i].f["id"]]

(* Track.bulk_delete *)
Track_bulk_delete(c, args) ==
  LET ids == OwnIds(args)
      c1 == Model_bulk_delete(c, "Track", args)
      c2 == Bind(c1, LAMBDA x : Model_list(x, "Cue", <<<<"track_id", ids>>>>))
      c3 == Bind(c2, LAMBDA x : Model_bulk_delete(x, "Cue", x.out))
      c4 == Bind(c3, LAMBDA x : Model_list(x, "PlaylistTrack",
                                           <<<<"track_id", ids>>>>))
  IN  Bind(c4, LAMBDA x : Model_bulk_delete(x, "PlaylistTrack", x.out))

(* TrackLocation.bulk_delete *)
TrackLocation_bulk_delete(c, args) ==
  LET ids == OwnIds(args)
      c1 == Model_bulk_delete(c, "TrackLocation", args)
      c2 == Bind(c1, LAMBDA x : Model_list(x, "TrackAnalysis",
                                           <<<<"track_id", ids>>>>))
      c3 == Bind(c2, LAMBDA x : Model_bulk_delete(x, "TrackAnalysis", x.out))
      c4 == Bind(c3, LAMBDA x : Model_list(x, "Track", <<<<"location", ids>>>>))
  IN  Bind(c4, LAMBDA x : Track_bulk_delete(x, x.out))

(* TrackLocation.delete *)
TrackLocation_delete(c, obj) ==
  LET c1 == Model_delete(c, obj)
      c2 == Bind(c1, LAMBDA x : Model_list(x, "Track",
                                           <<<<"location", <<obj.f["id"]>>>>>>))
  IN  Bind(c2, LAMBDA x : Track_bulk_delete(x, x.out))

(* method resolution of cls.bulk_delete and obj.delete *)
bulk_delete(c, cls, args) ==
  CASE cls = "TrackLocation" -> TrackLocation_bulk_delete(c, args)
    [] cls = "Track" -> Track_bulk_delete(c, args)
    [] OTHER -> Model_bulk_delete(c, cls, args)

delete(c, obj) ==
  IF obj.cls = "TrackLocation" THEN TrackLocation_delete(c, obj)
  ELSE Model_delete(c, obj)

----------------------------------------------------------------------------
(* The Model engine as a state machine *)

EmptyKw == [n \in {} |-> None]

EmptyDb == [t \in Tables |-> {}]

NoObj == [cls |-> "", f |-> EmptyKw, orig |-> EmptyKw, src |-> ""]

NoRes ==
  [op |-> "none", cls |-> "", obj |-> NoObj, ids |-> <<>>, gid |-> None,
   err |-> NoErr, sql |-> <<>>, out |-> <<>>, refs |-> {},
   seqdb |-> EmptyDb]

MvIdle == [pc |-> "idle"]

ScanIdle == [pc |-> "idle"]

Ctx ==
  [db |-> store, idf |-> id_field, objs |-> objs, err |-> NoErr,
   sql |-> <<>>, out |-> <<>>]

GetArgs == LocIds \cup TrackIds \cup {None}

NewKwargs == {EmptyKw}

(* the assignments tried: the identity unset, a new text in a text column   *)
(* and a text in an integer column                                          *)
Assignments ==
  {<<"id", None>>, <<"location", "big">>, <<"filesize", "big">>}

Mutated(o) == {n \in DOMAIN o.f : o.f[n] # o.orig[n]}

MutatedIn(os) == {<<i, n>> \in (1..Len(os)) \X UNION {field_names(k) : k \in ModelClasses} :
                    n \in Mutated(os[i])}

LiveClasses == {"TrackLocation", "Track", "Cue"}

(* the ids of the Track rows at one of the Locations ids *)
TracksAt(db, ids) == {t["id"] : t \in {r \in db["library"] : r["location"] \in ids}}

OutIds(c) == [i \in 1..Len(c.out) |-> c.out[i].f["id"]]

InitEngine ==
  /\ store \in Catalogs
  /\ fs = {}
  /\ objs = <<>>
  /\ id_field = [cls \in ModelClasses |-> TemplateRef]
  /\ res = NoRes
  /\ mv = MvIdle
  /\ scan = ScanIdle

RowClasses == {"TrackLocation", "CrateTrack"}

InitRow ==
  /\ store = Catalog(LibMap(1), "all")
  /\ fs = {}
  /\ objs = <<>>
  /\ id_field = [cls \in ModelClasses |-> TemplateRef]
  /\ res = NoRes
  /\ mv = MvIdle
  /\ scan = ScanIdle

(* obj = Cls(id=...) or Cls(): a row instance from literal values *)
New(cls, kw) ==
  /\ Len(objs) < MaxObjs
  /\ IF Meta_id_column(cls) = NoIdColumn
     THEN /\ res' = [NoRes EXCEPT !.op = "new", !.cls = cls,
                                  !.err = "AttributeError"]
          /\ UNCHANGED <<objs, id_field>>
     ELSE /\ objs' = Append(objs, Instance(cls, kw, "literal"))
          /\ id_field' = [id_field EXCEPT ![cls] = LiveRef(Len(objs) + 1)]
          /\ res' = NoRes
  /\ UNCHANGED <<store, fs, mv, scan>>

(* obj = Cls.get(id) *)
Get(cls, id) ==
  /\ Len(objs) < MaxObjs
  /\ LET c == Model_get(Ctx, cls, id)
     IN  /\ store' = c.db
         /\ res' = IF Ok(c) THEN NoRes
                   ELSE [NoRes EXCEPT !.op = "get", !.cls = cls, !.err = c.err]
         /\ IF Ok(c)
            THEN /\ objs' = Append(objs, c.out[1])
                 /\ id_field' = [id_field EXCEPT ![cls] = LiveRef(Len(objs) + 1)]
            ELSE UNCHANGED <<objs, id_field>>
  /\ UNCHANGED <<fs, mv, scan>>

(* obj.name = v *)
SetAttr(i, n, v) ==
  /\ i \in 1..Len(objs)
  /\ n \in DOMAIN objs[i].f
  /\ objs[i].f[n] # v
  /\ Cardinality(MutatedIn([objs EXCEPT ![i].f[n] = v])) <= MaxMut
  /\ objs' = [objs EXCEPT ![i].f[n] = v]
  /\ res' = NoRes
  /\ UNCHANGED <<store, fs, id_field, mv, scan>>

(* obj.update() *)
Update(i) ==
  /\ i \in 1..Len(objs)
  /\ LET c == Model_update(Ctx, objs[i])
     IN  /\ store' = c.db
         /\ id_field' = c.idf
         /\ res' = [NoRes EXCEPT !.op = "update", !.cls = objs[i].cls,
                                 !.obj = objs[i], !.ids = <<objs[i].f["id"]>>,
                                 !.gid = Model_get_id(Ctx, objs[i].cls),
                                 !.err = c.err, !.sql = c.sql]
  /\ UNCHANGED <<objs, fs, mv, scan>>

(* obj.delete() *)
Delete(i) ==
  /\ i \in 1..Len(objs)
  /\ LET c == delete(Ctx, objs[i])
     IN  /\ store' = c.db
         /\ id_field' = c.idf
         /\ res' = [NoRes EXCEPT !.op = "delete", !.cls = objs[i].cls,
                                 !.obj = objs[i], !.ids = <<objs[i].f["id"]>>,
                                 !.refs = TracksAt(store, {objs[i].f["id"]}),
                                 !.gid = Model_get_id(Ctx, objs[i].cls),
                                 !.err = c.err, !.sql = c.sql]
  /\ UNCHANGED <<objs, fs, mv, scan>>

(* Cls.bulk_delete of args, a sequence of live instances of Cls; with  *)
(* two rows the outcome of a.delete() followed by b.delete() from the same *)
(* state is recorded in seqdb                                              *)
BulkArgs(cls) ==
  LET I == {i \in 1..Len(objs) : objs[i].cls = cls}
  IN  {<<>>} \cup {<<i>> : i \in I}
             \cup {<<p[1], p[2]>> : p \in {q \in I \X I : q[1] # q[2]}}

SeqDelete(c, a, b) == Bind(delete(c, a), LAMBDA x : delete(x, b))

BulkDelete(cls, ixs) ==
  /\ ixs \in BulkArgs(cls)
  /\ LET args == [k \in 1..Len(ixs) |-> objs[ixs[k]]]
         c == bulk_delete(Ctx, cls, args)
     IN  /\ store' = c.db
         /\ id_field' = c.idf
         /\ res' = [NoRes EXCEPT !.op = "bulk_delete", !.cls = cls,
                                 !.ids = OwnIds(args),
                                 !.refs = TracksAt(store, Range(OwnIds(args))),
                                 !.gid = Model_get_id(Ctx, cls),
                                 !.err = c.err, !.sql = c.sql,
                                 !.seqdb = IF Len(args) = 2
                                           THEN SeqDelete(Ctx, args[1], args[2]).db
                                           ELSE EmptyDb]
  /\ UNCHANGED <<objs, fs, mv, scan>>

NextEngine ==
  \/ \E cls \in LiveClasses, id \in GetArgs : Get(cls, id)
  \/ \E i \in 1..MaxObjs : Delete(i)
  \/ \E cls \in ModelClasses : \E ixs \in BulkArgs(cls) : BulkDelete(cls, ixs)

Spec == InitEngine /\ [][NextEngine]_vars

NextRow ==
  \/ \E cls \in RowClasses, kw \in NewKwargs : New(cls, kw)
  \/ \E cls \in RowClasses, id \in GetArgs : Get(cls, id)
  \/ \E i \in 1..MaxObjs, a \in Assignments : SetAttr(i, a[1], a[2])
  \/ \E i \in 1..MaxObjs : Update(i)
  \/ \E i \in 1..MaxObjs : Delete(i)

SpecRow == InitRow /\ [][NextRow]_vars

----------------------------------------------------------------------------
(* Properties of the Model engine *)

DependentTables == {"cues", "crate_tracks", "PlaylistTracks", "track_analysis"}

LocationDeleted ==
  /\ res.op \in {"delete", "bulk_delete"}
  /\ res.cls = "TrackLocation"
  /\ res.err = NoErr
  /\ res.ids # <<>>

(* C1: after a Location is deleted through delete() or bulk_delete(), no   *)
(* Track row has a deleted id in its location column, and no Cue,          *)
(* CrateTrack, PlaylistTrack or TrackAnalysis row names a Track that was   *)
(* at a deleted Location.                                                  *)
C1_CascadeComplete ==
  LocationDeleted =>
    /\ \A t \in store["library"] : t["location"] \notin Range(res.ids)
    /\ \A tab \in DependentTables :
         \A r \in store[tab] : r["track_id"] \notin res.refs

C9_EmptyBulkDeleteNoOp ==
  [][(res'.op = "bulk_delete" /\ res'.ids = <<>>) =>
       (res'.err = NoErr /\ store' = store)]_vars

(* C10: the identity get_id() returns for a row instance is the one set on *)
(* that instance, whatever other instances were constructed or assigned.   *)
C10_OwnIdentity ==
  \A i \in 1..Len(objs) : Model_get_id(Ctx, objs[i].cls) = objs[i].f["id"]

----------------------------------------------------------------------------
(* Properties of update() and delete() on one row instance *)

ColumnInvalid(cls, n, v) ==
  \/ v # None /\ ~Field_isinstance(FieldOf(cls, n).kind, v)
  \/ v = None /\ ~FieldOf(cls, n).nullable

SomeColumnInvalid(obj) ==
  \E n \in field_names(obj.cls) : ColumnInvalid(obj.cls, n, obj.f[n])

(* C4: a row built from fetched values, with a new value assigned to one   *)
(* non-identity column, then update(): fetching it again by identity gives *)
(* the new value for that column and the former value for the others.      *)
C4_RoundTrip ==
  (/\ res.op = "update"
   /\ res.obj.src = "fetched"
   /\ Cardinality(Mutated(res.obj)) = 1
   /\ "id" \notin Mutated(res.obj)
   /\ ~SomeColumnInvalid(res.obj)) =>
     LET again == Model_get(Ctx, res.cls, res.obj.f["id"])
     IN  /\ Ok(again)
         /\ \A n \in field_names(res.cls) :
              again.out[1].f[n] = IF n \in Mutated(res.obj)
                                  THEN res.obj.f[n] ELSE res.obj.orig[n]

C8_UnsetIdentityRefused ==
  [][(res'.op \in {"update", "delete"} /\ res'.obj.f["id"] = None) =>
       (res'.err = "Precondition" /\ res'.sql = <<>> /\ store' = store)]_vars

----------------------------------------------------------------------------
(* The file system: fs.files are the regular files, by resolved path;      *)
(* fs.denied are the directories that cannot be read.                      *)

(* os.listdir(d) *)
listdir(fsys, d) ==
  IF realdir(d) \notin RealDirs
  THEN [err |-> "FileNotFoundError", names |-> {}]
  ELSE IF realdir(d) \in fsys.denied
  THEN [err |-> "PermissionError", names |-> {}]
  ELSE [err |-> NoErr,
        names |-> {basename(f) : f \in {g \in fsys.files : dirname(g) = realdir(d)}}]

RECURSIVE SetToSeq(_)
SetToSeq(S) ==
  IF S = {} THEN <<>>
  ELSE LET x == CHOOSE y \in S : TRUE IN <<x>> \o SetToSeq(S \ {x})

----------------------------------------------------------------------------
(* schemas.py: BaseSchema.list / db_fetchall: every row, as fetched *)
Schema_list(db, table) == SortRows(db[table])

AllDirs == {t[1] : t \in PathTab}

NoScan ==
  [err |-> NoErr, dirs |-> [d \in {} |-> {}], calls |-> [d \in AllDirs |-> 0]]

(* the scan with a list in place of the set: a directory once per row *)
ScanDirs_list(locations) ==
  [i \in 1..Len(locations) |-> dirname(locations[i]["location"])]

(* the directories the scan lists: set([os.path.dirname(l.location) ...]) *)
ScanDirs(locations) ==
  SetToSeq({dirname(locations[i]["location"]) : i \in 1..Len(locations)})

(* one pass per directory: dirs[dirname] = os.listdir(dirname), or [] when *)
(* FileNotFoundError is raised; any other error ends the scan              *)
RECURSIVE ListDirs(_, _, _)
ListDirs(fsys, dseq, acc) ==
  IF dseq = <<>> \/ acc.err # NoErr THEN acc
  ELSE LET d == Head(dseq)
           r == listdir(fsys, d)
           called == [acc EXCEPT !.calls[d] = @ + 1]
       IN  IF r.err \in {NoErr, "FileNotFoundError"}
           THEN ListDirs(fsys, Tail(dseq),
                         [called EXCEPT !.dirs = [x \in DOMAIN @ \cup {d} |->
                                                    IF x = d THEN r.names ELSE @[x]]])
           ELSE [called EXCEPT !.err = r.err]

Orphans(locations, dirs) ==
  {locations[i]["id"] :
     i \in {j \in 1..Len(locations) :
              locations[j]["filename"] \notin dirs[dirname(locations[j]["location"])]}}

(* schemas.py: TrackLocation.list_orphans(db_filename) *)
Schema_list_orphans(db, fsys) ==
  LET locations == Schema_list(db, "track_locations")
  IN  IF \E i \in 1..Len(locations) : locations[i]["location"] = None
      THEN [err |-> "TypeError", orphans |-> {}, calls |-> NoScan.calls]
      ELSE LET listed == ListDirs(fsys, ScanDirs(locations), NoScan)
           IN  [err |-> listed.err,
                orphans |-> IF listed.err = NoErr
                            THEN Orphans(locations, listed.dirs) ELSE {},
                calls |-> listed.calls]

(* models.py: TrackLocation.list_orphans() *)
Model_list_orphans(c, fsys) ==
  LET all == Model_list(c, "TrackLocation", <<>>)
      kept == SelectSeq(all.out, LAMBDA l : l.f["location"] # None)
      locations == [i \in 1..Len(kept) |-> kept[i].f]
      listed == ListDirs(fsys, ScanDirs(locations), NoScan)
  IN  [err |-> listed.err,
       orphans |-> IF listed.err = NoErr
                   THEN Orphans(locations, listed.dirs) ELSE {},
       calls |-> listed.calls, idf |-> all.idf]

(* mixxxdb.py: Path(source).glob("*") or glob("**/*"), files only; the     *)
(* recursive walk does not descend through the symbolic link, and a        *)
(* directory that cannot be read yields nothing                            *)
Glob(fsys, source, recursive) ==
  LET below == IF recursive /\ source = "/" THEN RealDirs \ {"/"} ELSE {}
      inside(d) == IF realdir(d) \in (RealDirs \ {"/"}) \ fsys.denied
                   THEN {joinpath(d, basename(f)) :
                           f \in {g \in fsys.files : dirname(g) = realdir(d)}}
                   ELSE {}
  IN  UNION {inside(d) : d \in {source} \cup below}

(* mixxxdb.py: list_orphan_files: the paths written to stdout *)
list_orphan_files(db, fsys, source, recursive) ==
  LET rows == Schema_list(db, "track_locations")
      locations == {rows[i]["location"] : i \in 1..Len(rows)}
  IN  {path \in Glob(fsys, source, recursive) :
         IsAudio(path) /\ resolve(path) \notin locations}

----------------------------------------------------------------------------
(* The scans as a state machine *)

ScanLocations == {"/m/a.mp3", "/m/b.mp3", "/l/a.mp3", "/n/b.mp3",
                  "/gone/a.mp3", None}

ScanFiles == {"/m/a.mp3", "/m/c.txt", "/n/b.mp3"}

ScanRow(i, p) ==
  [id |-> IdStr[i], location |-> p,
   directory |-> IF p = None THEN None ELSE dirname(p),
   filename |-> IF p = None THEN None ELSE basename(p),
   filesize |-> None, fs_deleted |-> "0"]

InitScan ==
  /\ \E ps \in [1..MaxLoc -> ScanLocations] :
       store = [EmptyDb EXCEPT
                  !["track_locations"] = {ScanRow(i, ps[i]) : i \in 1..MaxLoc}]
  /\ fs \in [files : SUBSET ScanFiles, denied : {{}, {"/n"}}, readonly : {{}}]
  /\ objs = <<>>
  /\ id_field = [cls \in ModelClasses |-> TemplateRef]
  /\ res = NoRes
  /\ mv = MvIdle
  /\ scan = ScanIdle

ListOrphansSchema ==
  /\ LET r == Schema_list_orphans(store, fs)
     IN  scan' = [pc |-> "done", op |-> "list_orphans", eng |-> "schemas",
                  err |-> r.err, orphans |-> r.orphans, calls |-> r.calls,
                  source |-> "", recursive |-> FALSE, out |-> {}]
  /\ UNCHANGED <<store, fs, objs, id_field, res, mv>>

ListOrphansModel ==
  /\ LET r == Model_list_orphans(Ctx, fs)
     IN  /\ scan' = [pc |-> "done", op |-> "list_orphans", eng |-> "models",
                     err |-> r.err, orphans |-> r.orphans, calls |-> r.calls,
                     source |-> "", recursive |-> FALSE, out |-> {}]
         /\ id_field' = r.idf
  /\ UNCHANGED <<store, fs, objs, res, mv>>

ListOrphanFiles(source, recursive) ==
  /\ scan' = [pc |-> "done", op |-> "list_orphan_files", eng |-> "schemas",
              err |-> NoErr, orphans |-> {}, calls |-> NoScan.calls,
              source |-> source, recursive |-> recursive,
              out |-> list_orphan_files(store, fs, source, recursive)]
  /\ UNCHANGED <<store, fs, objs, id_field, res, mv>>

NextScan ==
  \/ ListOrphansSchema
  \/ ListOrphansModel
  \/ \E source \in {"/", "/m", "/n", "/l"}, recursive \in BOOLEAN :
       ListOrphanFiles(source, recursive)

SpecScan == InitScan /\ [][NextScan]_vars

----------------------------------------------------------------------------
(* C5: when list_orphans returns, it returns exactly the Location rows     *)
(* with a recorded path whose recorded filename is not an entry of the     *)
(* current listing of the parent directory of that path (a directory that  *)
(* does not exist lists as empty), and every distinct parent directory has *)
(* been listed exactly once.                                               *)
Listing(d) == listdir(fs, d).names

PathRows == {r \in store["track_locations"] : r["location"] # None}

C5_OrphansExact ==
  (scan.pc = "done" /\ scan.op = "list_orphans" /\ scan.err = NoErr) =>
    /\ scan.orphans =
         {r["id"] : r \in {q \in PathRows :
                             q["filename"] \notin Listing(dirname(q["location"]))}}
    /\ \A d \in AllDirs :
         scan.calls[d] =
           IF d \in {dirname(r["location"]) : r \in PathRows} THEN 1 ELSE 0

(* a completed scan of two rows of one directory, one orphaned and one not *)
C5_Witness ==
  /\ scan.pc = "done" /\ scan.op = "list_orphans" /\ scan.err = NoErr
  /\ \E r1, r2 \in PathRows :
       /\ r1 # r2
       /\ dirname(r1["location"]) = dirname(r2["location"])
       /\ r1["id"] \in scan.orphans
       /\ r2["id"] \notin scan.orphans

(* C6: list_orphan_files reports a regular audio-typed file under the root *)
(* iff its resolved path differs from the resolved form of the recorded    *)
(* path of every Location.                                                 *)
C6_BothSidesResolved ==
  (scan.pc = "done" /\ scan.op = "list_orphan_files") =>
    scan.out =
      {path \in Glob(fs, scan.source, scan.recursive) :
         /\ IsAudio(path)
         /\ \A r \in PathRows : resolve(path) # resolve(r["location"])}

----------------------------------------------------------------------------
(* schemas.py: the row written as text into the statement *)

(* the text "%s" makes of a value; the text of None is not the null value *)
Schema_str(v) == IF v = None THEN "'None'" ELSE v

(* a value whose text holds a quote ends the literal it is written in *)
HasQuote(v) == \E t \in PathTab : t[2] = "d'n.mp3" /\ v \in {t[2], t[3]}

(* schemas.py: db_connection: closed without a commit *)
Schema_db_connection(committed, pending) == committed

(* schemas.py: BaseSchema.update of a TrackLocation *)
Schema_update(db, obj) ==
  IF \E col \in DOMAIN obj : HasQuote(obj[col])
  THEN [err |-> "OperationalError", db |-> db]
  ELSE LET written(r) ==
             [col \in DOMAIN r |->
                IF col = "id" THEN r[col] ELSE Schema_str(obj[col])]
           pending ==
             [db EXCEPT !["track_locations"] =
                {IF r["id"] = obj["id"] THEN written(r) ELSE r : r \in @}]
       IN  [err |-> NoErr, db |-> Schema_db_connection(db, pending)]

----------------------------------------------------------------------------
(* mixxxdb.py: move_files *)

(* Path.is_file() *)
is_file(fsys, p) == resolve(p) \in fsys.files

(* Path.is_dir() *)
is_dir(d) == realdir(d) \in RealDirs

(* Path.rename(dest): fails in a directory that cannot be written *)
rename(fsys, src, dest) ==
  IF dirname(resolve(src)) \in fsys.readonly \/ dirname(resolve(dest)) \in fsys.readonly
  THEN [err |-> "PermissionError", fs |-> fsys]
  ELSE [err |-> NoErr,
        fs |-> [fsys EXCEPT !.files = (@ \ {resolve(src)}) \cup {resolve(dest)}]]

(* update_db(srcpath, destpath): the rows in memory whose location is the  *)
(* resolved source are changed and written one after the other; the first  *)
(* failure ends the loop                                                   *)
RECURSIVE update_db(_, _, _, _, _)
update_db(db, locations, ixs, destpath, db_updated) ==
  IF ixs = <<>>
  THEN [err |-> NoErr, db |-> db, locations |-> locations,
        db_updated |-> db_updated]
  ELSE LET i == Head(ixs)
           location == [locations[i] EXCEPT !["location"] = destpath,
                                            !["directory"] = dirname(destpath)]
           changed == [locations EXCEPT ![i] = location]
           r == Schema_update(db, location)
       IN  IF r.err # NoErr
           THEN [err |-> r.err, db |-> r.db, locations |-> changed,
                 db_updated |-> db_updated]
           ELSE update_db(r.db, changed, Tail(ixs), destpath, TRUE)

Matching(locations, srcpath) ==
  LET RECURSIVE from(_)
      from(i) == IF i > Len(locations) THEN <<>>
                 ELSE IF locations[i]["location"] = resolve(srcpath)
                      THEN <<i>> \o from(i + 1) ELSE from(i + 1)
  IN  from(1)

(* one pass of the loop over the sources *)
move_one(db, fsys, locations, destdir, source) ==
  LET destpath == joinpath(destdir, basename(source))
      same == [db |-> db, fs |-> fsys, locations |-> locations]
  IN  IF ~is_file(fsys, source)
      THEN same @@ [outcome |-> "skipped", destpath |-> destpath]
      ELSE LET moved == rename(fsys, source, destpath)
           IN  IF moved.err # NoErr
               THEN same @@ [outcome |-> "rename failed", destpath |-> destpath]
               ELSE LET u == update_db(db, locations,
                                       Matching(locations, source), destpath, FALSE)
                    IN  IF u.err # NoErr
                        THEN [db |-> u.db,
                              fs |-> rename(moved.fs, destpath, source).fs,
                              locations |-> u.locations,
                              outcome |-> "move undone", destpath |-> destpath]
                        ELSE [db |-> u.db, fs |-> moved.fs,
                              locations |-> u.locations,
                              outcome |-> IF u.db_updated THEN "DB updated"
                                          ELSE "no DB entry",
                              destpath |-> destpath]

MoveLocations == {"/m/a.mp3", "/m/d'n.mp3", "/n/b.mp3"}

MoveFiles == {"/m/a.mp3", "/m/d'n.mp3"}

MoveSources == {"/m/a.mp3", "/l/a.mp3", "/m/d'n.mp3", "/l/d'n.mp3",
                "/gone/a.mp3"}

MoveDestinations == {"/n", "/l", "/gone"}

InitMove ==
  /\ \E ps \in [1..MaxLoc -> MoveLocations] :
       store = [EmptyDb EXCEPT
                  !["track_locations"] = {ScanRow(i, ps[i]) : i \in 1..MaxLoc}]
  /\ fs \in [files : SUBSET MoveFiles, denied : {{}}, readonly : {{}, {"/n"}}]
  /\ objs = <<>>
  /\ id_field = [cls \in ModelClasses |-> TemplateRef]
  /\ res = NoRes
  /\ mv = MvIdle
  /\ scan = ScanIdle

NoLast == [source |-> "", destpath |-> "", outcome |-> ""]

(* what the source processed last found: catalog, files and rows in memory *)
NoBefore == [db |-> EmptyDb, fs |-> {}, locations |-> <<>>]

(* move_files up to the loop: the rows are fetched, the destination checked *)
MoveStart(sources, destination) ==
  /\ mv.pc = "idle"
  /\ mv' = IF is_dir(destination)
           THEN [pc |-> "loop", sources |-> sources,
                 destdir |-> realdir(destination),
                 locations |-> Schema_list(store, "track_locations"),
                 last |-> NoLast, err |-> NoErr, before |-> NoBefore]
           ELSE [pc |-> "done", sources |-> sources, destdir |-> destination,
                 locations |-> Schema_list(store, "track_locations"),
                 last |-> NoLast, err |-> "ValueError", before |-> NoBefore]
  /\ UNCHANGED <<store, fs, objs, id_field, res, scan>>

(* the next source of the loop *)
MoveStep ==
  /\ mv.pc = "loop"
  /\ mv.sources # <<>>
  /\ LET r == move_one(store, fs, mv.locations, mv.destdir, Head(mv.sources))
     IN  /\ store' = r.db
         /\ fs' = r.fs
         /\ mv' = [mv EXCEPT !.sources = Tail(@),
                             !.locations = r.locations,
                             !.before = [db |-> store, fs |-> fs,
                                         locations |-> mv.locations],
                             !.last = [source |-> Head(mv.sources),
                                       destpath |-> r.destpath,
                                       outcome |-> r.outcome],
                             !.pc = IF Tail(mv.sources) = <<>> THEN "done" ELSE "loop"]
  /\ UNCHANGED <<objs, id_field, res, scan>>

SourceLists == UNION {[1..n -> MoveSources] : n \in 1..MaxSrc}

NextMove ==
  \/ \E sources \in SourceLists, destination \in MoveDestinations :
       MoveStart(sources, destination)
  \/ MoveStep

SpecMove == InitMove /\ [][NextMove]_vars

----------------------------------------------------------------------------
(* C2: when the processing of a source whose rename succeeded ends, either *)
(* the file is at the destination and every Location row whose recorded    *)
(* path was the resolved source has its path and directory set to the      *)
(* destination, or the catalog update failed, the file is back at its      *)
(* original path and every such row is unchanged.                          *)
RowsOf(db, srcpath) ==
  {r \in db["track_locations"] : r["location"] = resolve(srcpath)}

C2_AllOrNothing ==
  [][(mv.pc = "loop" /\ mv'.sources = Tail(mv.sources)
      /\ mv'.last.outcome \in {"DB updated", "no DB entry", "move undone"}) =>
       LET source == mv'.last.source
           destpath == mv'.last.destpath
       IN  \/ /\ destpath \in fs'.files
              /\ \A r \in RowsOf(store, source) :
                   \E q \in store'["track_locations"] :
                     /\ q["id"] = r["id"]
                     /\ q["location"] = destpath
                     /\ q["directory"] = dirname(destpath)
           \/ /\ mv'.last.outcome = "move undone"
              /\ resolve(source) \in fs'.files
              /\ RowsOf(store, source) \subseteq store'["track_locations"]]_vars

----------------------------------------------------------------------------
(* C11: in every cascade delete run by the engine, dependents are deleted  *)
(* before the rows they depend on: between two statements of the cascade   *)
(* no row that is still live references a row that a statement of the      *)
(* cascade has already deleted (a Track references its Location; a Cue,    *)
(* CrateTrack, PlaylistTrack or TrackAnalysis row references its Track).   *)
RowsNamed(stmt) == {r \in store[stmt.table] : r[stmt.col] \in stmt.vals}

DeletedBy(sql, k, table) ==
  UNION {RowsNamed(sql[i]) : i \in {j \in 1..k : sql[j].table = table}}

LiveAfter(sql, k, table) == store[table] \ DeletedBy(sql, k, table)

Dangling(sql, k) ==
  \/ \E t \in LiveAfter(sql, k, "library") :
       \E l \in DeletedBy(sql, k, "track_locations") : t["location"] = l["id"]
  \/ \E tab \in DependentTables :
       \E d \in LiveAfter(sql, k, tab) :
         \E t \in DeletedBy(sql, k, "library") : d["track_id"] = t["id"]

C11_DependentsFirst ==
  (res.op \in {"delete", "bulk_delete"}) =>
    \A k \in 1..(Len(res.sql) - 1) : ~Dangling(res.sql, k)

----------------------------------------------------------------------------
(* C12: within one move_files batch the sources are independent: a source  *)
(* whose rename fails leaves the catalog untouched, a source whose catalog *)
(* update fails is rolled back, processing continues with the next source, *)
(* and the file position and Location rows the next source ends with are   *)
(* those its own processing alone produces, that is, its processing from   *)
(* what the failed source found.                                           *)
FailedOutcomes == {"rename failed", "move undone"}

C12_SourcesIndependent ==
  [][(mv.pc = "loop" /\ mv'.sources = Tail(mv.sources)) =>
       /\ (mv'.last.outcome \in FailedOutcomes) =>
            (store' = store /\ mv'.pc = IF mv'.sources = <<>> THEN "done" ELSE "loop")
       /\ (mv.last.outcome \in FailedOutcomes) =>
            LET alone == move_one(mv.before.db, mv.before.fs,
                                  mv.before.locations, mv.destdir,
                                  Head(mv.sources))
            IN  /\ fs' = alone.fs
                /\ store' = alone.db]_vars

----------------------------------------------------------------------------
(* C13: every write statement issued by delete() and bulk_delete() is      *)
(* committed on its own: once the statement has run and its connection is  *)
(* closed, its effect is in the store, also when a later statement of the  *)
(* same cascade fails: no row a DELETE statement named is left.            *)
C13_StatementCommitted ==
  (res.op \in {"delete", "bulk_delete"}) =>
    \A i \in 1..Len(res.sql) :
      res.sql[i].verb = "DELETE" => RowsNamed(res.sql[i]) = {}

(* C14: the catalog-orphan scan never fails because a directory cannot be  *)
(* listed: every listing failure is recovered as an empty listing, so the  *)
(* scan completes and every Location recorded in such a directory is       *)
(* reported as an orphan.                                                  *)
ListingErrors == {"FileNotFoundError", "PermissionError"}

C14_ListingFailureRecovered ==
  (scan.pc = "done" /\ scan.op = "list_orphans") =>
    /\ scan.err \notin ListingErrors
    /\ scan.err = NoErr =>
         \A r \in PathRows :
           listdir(fs, dirname(r["location"])).err \in ListingErrors =>
             r["id"] \in scan.orphans

====
